---- MODULE Spec2Model ----
(***************************************************************************)
(* Order Splitter (streamlit_app.py): key normalisation, candidate         *)
(* extraction, vendor index, page classification, routing and audit log.   *)
(* Strings the program inspects character by character are tuples of       *)
(* one-character strings; a page's text is the sequence, in text order, of *)
(* the anchored tokens the ANCHOR_PATTERNS regexes find in it.             *)
(***************************************************************************)
EXTENDS Integers, Sequences, FiniteSets, TLC

VARIABLES
    ZERO_SIGNIFICANT,  \* sidebar checkbox "Treat leading zeros as significant"
    pdfs,              \* uploaded PDF files, in upload order
    xls,               \* uploaded workbook, or NoXls
    pc,                \* position of process_store_ui
    backend_name,      \* result of get_pdf_backend
    df,                \* the DataFrame read from the workbook
    vendor_col,        \* index of the vendor column, 0 for None
    key_cols,          \* indices of the key columns
    mapping,           \* dict normalized key -> vendor
    total_pages,       \* pages counted by the first pass
    done,              \* pages processed so far
    vendor_writers,    \* dict vendor -> pages added to its PdfWriter
    logs,              \* list of log records
    pdf,               \* index of the current pdf in pdfs (1-based)
    i,                 \* enumerate index of the current page (0-based)
    reader,            \* PdfReader of the current pdf
    matches,           \* matches of the page processed last
    vendors,           \* distinct vendors of the page processed last
    mixed_dir,         \* files in errors/mixed: name -> page
    unmatched_dir,     \* files in errors/unmatched: name -> page
    vendor_dir,        \* files in vendors: name -> pages
    summary_csv,       \* rows of logs/summary.csv
    zip_entries,       \* arcnames in the store's zip
    added,             \* every add_page call made by the page loop
    st_errors,         \* messages shown with st.error / st.exception
    raw,               \* normalize_key harness: the input string
    key,               \* normalize_key(raw)
    rekey,             \* normalize_key(key)
    npc                \* normalize_key harness position

runVars == <<pdfs, xls, pc, backend_name, df, vendor_col, key_cols, mapping,
             total_pages, done, vendor_writers, logs, pdf, i, reader, matches,
             vendors, mixed_dir, unmatched_dir, vendor_dir, summary_csv,
             zip_entries, added, st_errors>>
normVars == <<raw, key, rekey, npc>>
vars == <<ZERO_SIGNIFICANT, runVars, normVars>>

\* ------------------------------------------------------------- bounds
MaxDocs == 2      \* uploaded PDFs per run
MaxLen == 3       \* length of the strings given to normalize_key

\* ------------------------------------------------------------- strings
Whitespace == {" ", "\t"}
Digits == <<"0", "1", "2", "3", "4", "5", "6", "7", "8", "9">>
LowerCase == <<"a", "b", "c", "d", "e", "f", "g", "h", "i", "j", "k", "l", "m",
               "n", "o", "p", "q", "r", "s", "t", "u", "v", "w", "x", "y", "z">>
UpperCase == <<"A", "B", "C", "D", "E", "F", "G", "H", "I", "J", "K", "L", "M",
               "N", "O", "P", "Q", "R", "S", "T", "U", "V", "W", "X", "Y", "Z">>
Range(s) == {s[k] : k \in DOMAIN s}
WordChars == Range(Digits) \cup Range(LowerCase) \cup Range(UpperCase) \cup {"_"}

IndexIn(s, c) == CHOOSE k \in DOMAIN s : s[k] = c
\* str.upper / str.lower, one character
UpperChar(c) == IF c \in Range(LowerCase) THEN UpperCase[IndexIn(LowerCase, c)] ELSE c
LowerChar(c) == IF c \in Range(UpperCase) THEN LowerCase[IndexIn(UpperCase, c)] ELSE c
Upper(s) == [k \in DOMAIN s |-> UpperChar(s[k])]
Lower(s) == [k \in DOMAIN s |-> LowerChar(s[k])]

\* str.replace(c, "")
Remove(s, c) == SelectSeq(s, LAMBDA x : x # c)

\* number of leading (trailing) characters of s that are in cs
LeadCount(s, cs) ==
    IF \A k \in DOMAIN s : s[k] \in cs THEN Len(s)
    ELSE (CHOOSE k \in DOMAIN s : s[k] \notin cs /\ \A j \in 1..(k - 1) : s[j] \in cs) - 1
TrailCount(s, cs) ==
    IF \A k \in DOMAIN s : s[k] \in cs THEN Len(s)
    ELSE Len(s) - (CHOOSE k \in DOMAIN s :
                      s[k] \notin cs /\ \A j \in (k + 1)..Len(s) : s[j] \in cs)
\* str.strip(cs); str.strip() is Strip(s, Whitespace)
Strip(s, cs) ==
    IF LeadCount(s, cs) = Len(s) THEN <<>>
    ELSE SubSeq(s, LeadCount(s, cs) + 1, Len(s) - TrailCount(s, cs))

\* re.sub(r"^0+(?!$)", "", s): the leading zeros go, but the match may not
\* end at the end of the string, so a string of zeros keeps its last one
StripLeadingZeros(s) ==
    LET z == LeadCount(s, {"0"})
    IN  IF z = 0 THEN s
        ELSE IF z = Len(s) THEN SubSeq(s, Len(s), Len(s))
        ELSE SubSeq(s, z + 1, Len(s))

normalize_key_inverted(s) ==
    LET t == Strip(s, Whitespace)
        u == IF ZERO_SIGNIFICANT THEN StripLeadingZeros(t) ELSE t
    IN  Remove(Remove(Remove(Remove(Upper(u), " "), "-"), "_"), "/")

normalize_key(s) ==
    LET t == Strip(s, Whitespace)
        u == IF ~ZERO_SIGNIFICANT THEN StripLeadingZeros(t) ELSE t
    IN  Remove(Remove(Remove(Remove(Upper(u), " "), "-"), "_"), "/")

\* Python's `sub in s`
Contains(s, sub) ==
    \E k \in 0..(Len(s) - Len(sub)) : SubSeq(s, k + 1, k + Len(sub)) = sub

\* re.sub(r"[^\w\-]+", "_", s): each run of other characters becomes one "_"
RECURSIVE SubNonWord(_)
SubNonWord(s) ==
    IF s = <<>> THEN <<>>
    ELSE IF Head(s) \in WordChars \cup {"-"} THEN <<Head(s)>> \o SubNonWord(Tail(s))
    ELSE LET n == LeadCount(s, {c \in Range(s) : c \notin WordChars \cup {"-"}})
         IN  <<"_">> \o SubNonWord(SubSeq(s, n + 1, Len(s)))

safe_name(s) == Strip(SubNonWord(s), {"_"})

\* str(n) for n >= 0
RECURSIVE IntStr(_)
IntStr(n) == IF n < 10 THEN <<Digits[n + 1]>> ELSE IntStr(n \div 10) \o <<Digits[(n % 10) + 1]>>

\* ------------------------------------------------------------- inputs
\* ANCHOR_PATTERNS, by label: the regexes are what finds a page's anchored
\* tokens; the order of the list is the priority order
ANCHOR_PATTERNS == <<"Model", "Item", "Internet", "SKU">>

Occ(label, token) == [label |-> label, token |-> token]
Page(fails, text) == [fails |-> fails, text |-> text]

\* page texts: the anchored tokens of each, in the order they stand in the text
PgNone == Page(FALSE, <<>>)
PgFail == Page(TRUE, <<Occ("Model", <<"A", "B", "1">>)>>)
PgTie == Page(FALSE, <<Occ("SKU", <<"0", "0", "7">>), Occ("Model", <<"a", "b", "-", "1">>),
                       Occ("Model", <<"A", "B", "1">>), Occ("Item", <<"Q", "5", "5">>)>>)
PgZero == Page(FALSE, <<Occ("SKU", <<"0", "0", "7">>)>>)
PgMixed == Page(FALSE, <<Occ("Item", <<"x", "_", "9", "9">>), Occ("Model", <<"A", "B", "1">>)>>)
PgBeta == Page(FALSE, <<Occ("Internet", <<"X", "-", "9", "9">>), Occ("Item", <<"Z", "Z", "8">>)>>)

FileNames == {<<"a", " ", "1", ".", "p", "d", "f">>,
              <<"a", ".", "1", ".", "p", "d", "f">>,
              <<"b", ".", "p", "d", "f">>}
\* a corrupt file has pages that PdfReader cannot open
FileBodies == {[corrupt |-> TRUE, pages |-> <<PgTie, PgNone>>],
               [corrupt |-> FALSE, pages |-> <<PgTie, PgMixed, PgFail>>],
               [corrupt |-> FALSE, pages |-> <<PgNone, PgZero, PgBeta>>]}
Files == {[name |-> n, corrupt |-> b.corrupt, pages |-> b.pages] :
             n \in FileNames, b \in FileBodies}

\* a cell is a string or NaN (an empty cell); PyStr is str(cell)
NaN == [kind |-> "NaN"]
Cell(s) == [kind |-> "str", s |-> s]
PyStr(cell) == IF cell.kind = "NaN" THEN <<"n", "a", "n">> ELSE cell.s

Acme == Cell(<<"A", "c", "m", "e">>)
Beta == Cell(<<"B", "e", "t", "a">>)
NoXls == [kind |-> "none"]
Workbook(readable, columns, rows) ==
    [kind |-> "xlsx", readable |-> readable, columns |-> columns, rows |-> rows]
WbSkuModel ==
    Workbook(TRUE, <<<<"S", "K", "U">>, <<"M", "o", "d", "e", "l", " ", "#">>, <<"V", "e", "n", "d", "o", "r", " ", "N", "a", "m", "e">>>>,
             <<<<Cell(<<"7">>), Cell(<<"A", "B", "1">>), Acme>>,
               <<Cell(<<"X", "-", "9", "9">>), NaN, Beta>>,
               <<Cell(<<"Z", "Z", "8">>), Cell(<<"Q", "5", "5">>), NaN>>>>)
WbItem ==
    Workbook(TRUE, <<<<"i", "t", "e", "m", " ", "n", "o">>, <<"V", "E", "N", "D", "O", "R">>>>,
             <<<<Cell(<<"0", "A", "B", "1">>), Acme>>,
               <<Cell(<<" ", "x", " ", "9", "9">>), Beta>>,
               <<Cell(<<"0", "0", "7">>), Acme>>>>)
WbNoVendor ==
    Workbook(TRUE, <<<<"S", "K", "U">>, <<"S", "u", "p", "p", "l", "i", "e", "r">>>>,
             <<<<Cell(<<"7">>), Acme>>>>)
WbNoKey ==
    Workbook(TRUE, <<<<"V", "e", "n", "d", "o", "r", " ", "N", "a", "m", "e">>, <<"N", "o", "t", "e", "s">>>>,
             <<<<Acme, Cell(<<"7">>)>>>>)
WbUnreadable == Workbook(FALSE, <<>>, <<>>)
Workbooks == {WbSkuModel, WbItem, WbNoVendor, WbNoKey, WbUnreadable}

\* ------------------------------------------------------------- helpers
\* dict[k] = v
Put(m, k, v) == [x \in (DOMAIN m) \cup {k} |-> IF x = k THEN v ELSE m[x]]

Placeholders == {<<"n", "a", "n">>, <<"N", "o", "n", "e">>}
MIXED == <<"M", "I", "X", "E", "D">>
UNMATCHED == <<"U", "N", "M", "A", "T", "C", "H", "E", "D">>
store_key == "Depot"

\* the first column whose lowercased header contains "vendor"; 0 is None
FirstColumnWhenNoVendor(columns) ==
    IF \E k \in DOMAIN columns : Contains(Lower(columns[k]), <<"v", "e", "n", "d", "o", "r">>)
    THEN CHOOSE k \in DOMAIN columns :
             /\ Contains(Lower(columns[k]), <<"v", "e", "n", "d", "o", "r">>)
             /\ \A j \in 1..(k - 1) : ~Contains(Lower(columns[j]), <<"v", "e", "n", "d", "o", "r">>)
    ELSE IF columns = <<>> THEN 0 ELSE 1

FindVendorCol(columns) ==
    IF \E k \in DOMAIN columns : Contains(Lower(columns[k]), <<"v", "e", "n", "d", "o", "r">>)
    THEN CHOOSE k \in DOMAIN columns :
             /\ Contains(Lower(columns[k]), <<"v", "e", "n", "d", "o", "r">>)
             /\ \A j \in 1..(k - 1) : ~Contains(Lower(columns[j]), <<"v", "e", "n", "d", "o", "r">>)
    ELSE 0

KeyWords == {<<"s", "k", "u">>, <<"i", "t", "e", "m">>, <<"m", "o", "d", "e", "l">>, <<"i", "n", "t", "e", "r", "n", "e", "t">>}
IsKeyHeader(c) == \E k \in KeyWords : Contains(Lower(c), k)
\* the indices of the key columns, in column order
KeyCols(columns) ==
    SelectSeq([k \in DOMAIN columns |-> k], LAMBDA k : IsKeyHeader(columns[k]))

\* the inner loop of the index build: one row's key cells
RECURSIVE PutKeys(_, _, _, _)
PutKeys(m, row, cols, vendor) ==
    IF cols = <<>> THEN m
    ELSE LET v == Strip(PyStr(row[Head(cols)]), Whitespace)
         IN  PutKeys(IF v # <<>> /\ v \notin Placeholders
                     THEN Put(m, normalize_key(v), vendor) ELSE m,
                     row, Tail(cols), vendor)

\* the outer loop of the index build: rows in order, later rows overwrite
RECURSIVE BuildMapping(_, _, _, _)
BuildMapping(m, rows, vcol, kcols) ==
    IF rows = <<>> THEN m
    ELSE LET vendor == Strip(PyStr(Head(rows)[vcol]), Whitespace)
         IN  BuildMapping(IF vendor \in {<<>>} \cup Placeholders THEN m
                          ELSE PutKeys(m, Head(rows), kcols, vendor),
                          Tail(rows), vcol, kcols)

\* the first pass: pages of the files PdfReader opens
RECURSIVE CountPages(_)
CountPages(files) ==
    IF files = <<>> THEN 0
    ELSE (IF Head(files).corrupt THEN 0 ELSE Len(Head(files).pages))
         + CountPages(Tail(files))

\* the candidates of one pattern: its occurrences in text order
CandsOf(text, label) ==
    LET occ == SelectSeq(text, LAMBDA o : o.label = label)
    IN  [k \in DOMAIN occ |->
            <<label, Strip(Strip(occ[k].token, Whitespace), {":", "#"})>>]

RECURSIVE CandsFrom(_, _)
CandsFrom(text, patterns) ==
    IF patterns = <<>> THEN <<>>
    ELSE CandsOf(text, Head(patterns)) \o CandsFrom(text, Tail(patterns))

extract_candidates(text) ==
    IF text = <<>> THEN <<>> ELSE CandsFrom(text, ANCHOR_PATTERNS)

\* 1.0 - 0.1 * order.index(label), else 0.5; in tenths
Score(label) ==
    IF label \in Range(ANCHOR_PATTERNS)
    THEN 10 - (IndexIn(ANCHOR_PATTERNS, label) - 1) ELSE 5

\* f"{score:.2f}" of a score in tenths
Fmt2(score) == IntStr(score \div 10) \o <<".", Digits[(score % 10) + 1], "0">>

\* the candidates whose normalized key is in keyset, as matches
Matches(cands, m) ==
    LET hits == SelectSeq(cands, LAMBDA c : normalize_key(c[2]) \in DOMAIN m)
    IN  [k \in DOMAIN hits |->
            [raw |-> hits[k][2], nz |-> normalize_key(hits[k][2]),
             vendor |-> m[normalize_key(hits[k][2])], label |-> hits[k][1],
             method |-> "native", score |-> Score(hits[k][1])]]

\* sorted(ms, key=lambda x: -x[5]): stable, so equal scores keep their order
RECURSIVE SortedByScore(_)
SortedByScore(ms) ==
    IF ms = <<>> THEN <<>>
    ELSE LET init == SortedByScore(SubSeq(ms, 1, Len(ms) - 1))
             x == ms[Len(ms)]
             n == Cardinality({k \in DOMAIN init : init[k].score >= x.score})
         IN  SubSeq(init, 1, n) \o <<x>> \o SubSeq(init, n + 1, Len(init))

BestMatch_last(ms) == ms[Len(ms)]

BestMatch(ms) == Head(SortedByScore(ms))

Decision_any(vs) ==
    IF Cardinality(vs) >= 1 THEN "routed" ELSE "unmatched"

\* the three branches of the page loop
Decision(vs) ==
    IF Cardinality(vs) = 1 THEN "routed"
    ELSE IF Cardinality(vs) > 1 THEN "mixed" ELSE "unmatched"

\* vendors[0] of list({...}): an element of the set
FirstVendor(vs) == CHOOSE v \in vs : TRUE

SingleName(name, idx) ==
    safe_name(name) \o <<"_", "p">> \o IntStr(idx + 1) \o <<".", "p", "d", "f">>

AddPage(dest, target, pg) == [dest |-> dest, target |-> target, page |-> pg]

PageAdds_both(vs, pg, name, idx) ==
    IF Cardinality(vs) = 1 THEN <<AddPage("vendor", FirstVendor(vs), pg)>>
    ELSE IF Cardinality(vs) > 1
    THEN <<AddPage("vendor", FirstVendor(vs), pg), AddPage("mixed", SingleName(name, idx), pg)>>
    ELSE <<AddPage("unmatched", SingleName(name, idx), pg)>>

\* the add_page calls of one page: the writer, and for a single-page writer
\* the file it is written to
PageAdds(vs, pg, name, idx) ==
    IF Decision(vs) = "routed" THEN <<AddPage("vendor", FirstVendor(vs), pg)>>
    ELSE IF Decision(vs) = "mixed" THEN <<AddPage("mixed", SingleName(name, idx), pg)>>
    ELSE <<AddPage("unmatched", SingleName(name, idx), pg)>>

\* ensure_writer(v).add_page(page); writers keep the dict's insertion order
AddToWriter(ws, v, pg) ==
    IF \E k \in DOMAIN ws : ws[k].vendor = v
    THEN [k \in DOMAIN ws |->
             IF ws[k].vendor = v THEN [ws[k] EXCEPT !.pages = Append(@, pg)] ELSE ws[k]]
    ELSE Append(ws, [vendor |-> v, pages |-> <<pg>>])

RECURSIVE AddToWriters(_, _)
AddToWriters(ws, adds) ==
    IF adds = <<>> THEN ws
    ELSE AddToWriters(IF Head(adds).dest = "vendor"
                      THEN AddToWriter(ws, Head(adds).target, Head(adds).page) ELSE ws,
                      Tail(adds))

\* open(os.path.join(dir, name), "wb") and single.write(f)
RECURSIVE WriteSingles(_, _, _)
WriteSingles(dir, adds, dest) ==
    IF adds = <<>> THEN dir
    ELSE WriteSingles(IF Head(adds).dest = dest
                      THEN Put(dir, Head(adds).target, Head(adds).page) ELSE dir,
                      Tail(adds), dest)

EmptyRow(name, idx, v) ==
    [store |-> store_key, source_pdf |-> name, page_index |-> IntStr(idx),
     vendor |-> v, raw_token |-> <<>>, normalized |-> <<>>, anchor |-> "",
     method |-> "", confidence |-> <<"0", ".", "0", "0">>]

LogRow_swapped(vs, ms, name, idx) ==
    IF Decision(vs) = "routed"
    THEN [store |-> store_key, source_pdf |-> name, page_index |-> IntStr(idx),
          vendor |-> FirstVendor(vs), raw_token |-> BestMatch(ms).nz,
          normalized |-> BestMatch(ms).raw, anchor |-> BestMatch(ms).label,
          method |-> BestMatch(ms).method, confidence |-> Fmt2(BestMatch(ms).score)]
    ELSE IF Decision(vs) = "mixed" THEN EmptyRow(name, idx, MIXED)
    ELSE EmptyRow(name, idx, UNMATCHED)

\* the record logs.append gets in each branch
LogRow(vs, ms, name, idx) ==
    IF Decision(vs) = "routed"
    THEN [store |-> store_key, source_pdf |-> name, page_index |-> IntStr(idx),
          vendor |-> FirstVendor(vs), raw_token |-> BestMatch(ms).raw,
          normalized |-> BestMatch(ms).nz, anchor |-> BestMatch(ms).label,
          method |-> BestMatch(ms).method, confidence |-> Fmt2(BestMatch(ms).score)]
    ELSE IF Decision(vs) = "mixed" THEN EmptyRow(name, idx, MIXED)
    ELSE EmptyRow(name, idx, UNMATCHED)

HasNextPage_short(idx, n) == idx < n - 1

\* enumerate(reader.pages) has a page left
HasNextPage(idx, n) == idx < n

\* the vendor PDFs written after the loop, in the writers' order
RECURSIVE WriteVendors(_, _)
WriteVendors(dir, ws) ==
    IF ws = <<>> THEN dir
    ELSE WriteVendors(IF Len(Head(ws).pages) = 0 THEN dir
                      ELSE Put(dir, safe_name(Head(ws).vendor) \o <<".", "p", "d", "f">>, Head(ws).pages),
                      Tail(ws))

\* ------------------------------------------------------------- the run
CHECKBOX_DEFAULT == FALSE

Outputs == <<vendor_writers, logs, mixed_dir, unmatched_dir, vendor_dir,
             summary_csv, zip_entries, added>>
Loop == <<pdf, i, reader, matches, vendors, done>>
Index == <<df, vendor_col, key_cols, mapping, total_pages>>
Uploads == <<ZERO_SIGNIFICANT, pdfs, xls>>

Init ==
    /\ ZERO_SIGNIFICANT = CHECKBOX_DEFAULT
    /\ pdfs = <<>> /\ xls = NoXls
    /\ pc = "idle" /\ backend_name = ""
    /\ df = NoXls /\ vendor_col = 0 /\ key_cols = <<>> /\ mapping = <<>>
    /\ total_pages = 0 /\ done = 0
    /\ vendor_writers = <<>> /\ logs = <<>>
    /\ pdf = 0 /\ i = 0 /\ reader = <<>> /\ matches = <<>> /\ vendors = {}
    /\ mixed_dir = <<>> /\ unmatched_dir = <<>> /\ vendor_dir = <<>>
    /\ summary_csv = <<>> /\ zip_entries = {}
    /\ added = <<>> /\ st_errors = {}
    /\ raw = <<>> /\ key = <<>> /\ rekey = <<>> /\ npc = "input"

\* the sidebar checkbox is clicked
ToggleCheckbox ==
    /\ pc = "idle" /\ npc = "input"
    /\ ZERO_SIGNIFICANT' = ~ZERO_SIGNIFICANT
    /\ UNCHANGED <<runVars, normVars>>

\* a PDF is added to the file_uploader
UploadPdf ==
    /\ pc = "idle" /\ Len(pdfs) < MaxDocs
    /\ \E f \in Files :
          /\ \A k \in DOMAIN pdfs : pdfs[k].name # f.name
          /\ pdfs' = Append(pdfs, f)
    /\ UNCHANGED <<ZERO_SIGNIFICANT, xls, pc, backend_name, Index, Loop, Outputs,
                   st_errors, normVars>>

\* a workbook is put in the second file_uploader
UploadXls ==
    /\ pc = "idle" /\ xls = NoXls
    /\ xls' \in Workbooks
    /\ UNCHANGED <<ZERO_SIGNIFICANT, pdfs, pc, backend_name, Index, Loop, Outputs,
                   st_errors, normVars>>

\* the Process button is pressed: run is true
ClickRun ==
    /\ pc = "idle"
    /\ pc' = "import_pandas"
    /\ UNCHANGED <<Uploads, backend_name, Index, Loop, Outputs, st_errors, normVars>>

ImportPandas ==
    /\ pc = "import_pandas"
    /\ \/ pc' = "get_backend" /\ UNCHANGED st_errors
       \/ pc' = "returned" /\ st_errors' = st_errors \cup {"pandas"}
    /\ UNCHANGED <<Uploads, backend_name, Index, Loop, Outputs, normVars>>

GetPdfBackend ==
    /\ pc = "get_backend"
    /\ \/ /\ backend_name' \in {"PyPDF2", "pypdf"}
          /\ pc' = "check_uploads" /\ UNCHANGED st_errors
       \/ /\ backend_name' = "none"
          /\ pc' = "stopped" /\ st_errors' = st_errors \cup {"backend"}
    /\ UNCHANGED <<Uploads, Index, Loop, Outputs, normVars>>

CheckUploads ==
    /\ pc = "check_uploads"
    /\ IF pdfs = <<>> \/ xls = NoXls
       THEN pc' = "returned" /\ st_errors' = st_errors \cup {"uploads"}
       ELSE pc' = "read_excel" /\ UNCHANGED st_errors
    /\ UNCHANGED <<Uploads, backend_name, Index, Loop, Outputs, normVars>>

ReadExcel ==
    /\ pc = "read_excel"
    /\ IF xls.readable
       THEN df' = xls /\ pc' = "vendor_col" /\ UNCHANGED st_errors
       ELSE pc' = "returned" /\ st_errors' = st_errors \cup {"excel"} /\ UNCHANGED df
    /\ UNCHANGED <<Uploads, backend_name, vendor_col, key_cols, mapping, total_pages,
                   Loop, Outputs, normVars>>

VendorColumn ==
    /\ pc = "vendor_col"
    /\ vendor_col' = FindVendorCol(df.columns)
    /\ IF vendor_col' = 0
       THEN pc' = "returned" /\ st_errors' = st_errors \cup {"vendor_col"}
       ELSE pc' = "key_cols" /\ UNCHANGED st_errors
    /\ UNCHANGED <<Uploads, backend_name, df, key_cols, mapping, total_pages, Loop,
                   Outputs, normVars>>

KeyColumns ==
    /\ pc = "key_cols"
    /\ key_cols' = KeyCols(df.columns)
    /\ IF key_cols' = <<>>
       THEN pc' = "returned" /\ st_errors' = st_errors \cup {"key_cols"}
       ELSE pc' = "build" /\ UNCHANGED st_errors
    /\ UNCHANGED <<Uploads, backend_name, df, vendor_col, mapping, total_pages, Loop,
                   Outputs, normVars>>

\* the index, the output directories and the first pass over the PDFs
BuildIndex ==
    /\ pc = "build"
    /\ mapping' = BuildMapping(<<>>, df.rows, vendor_col, key_cols)
    /\ total_pages' = CountPages(pdfs)
    /\ done' = 0 /\ pdf' = 1
    /\ pc' = "open"
    /\ UNCHANGED <<Uploads, backend_name, df, vendor_col, key_cols, i, reader, matches,
                   vendors, Outputs, st_errors, normVars>>

\* PdfReader(io.BytesIO(pb)) of the next pdf
OpenPdf ==
    /\ pc = "open" /\ pdf <= Len(pdfs)
    /\ IF pdfs[pdf].corrupt
       THEN /\ st_errors' = st_errors \cup {"open_pdf"}
            /\ pdf' = pdf + 1
            /\ UNCHANGED <<pc, reader, i>>
       ELSE /\ reader' = pdfs[pdf].pages /\ i' = 0
            /\ pc' = "pages"
            /\ UNCHANGED <<pdf, st_errors>>
    /\ UNCHANGED <<Uploads, backend_name, Index, matches, vendors, done, Outputs, normVars>>

\* one turn of the page loop
ProcessPage ==
    /\ pc = "pages" /\ HasNextPage(i, Len(reader))
    /\ LET page == reader[i + 1]
           text == IF page.fails THEN <<>> ELSE page.text
           cands == extract_candidates(text)
           ms == Matches(cands, mapping)
           vs == {ms[k].vendor : k \in DOMAIN ms}
           adds == PageAdds(vs, [pdf |-> pdf, page |-> i], pdfs[pdf].name, i)
       IN  /\ matches' = ms
           /\ vendors' = vs
           /\ added' = added \o adds
           /\ vendor_writers' = AddToWriters(vendor_writers, adds)
           /\ mixed_dir' = WriteSingles(mixed_dir, adds, "mixed")
           /\ unmatched_dir' = WriteSingles(unmatched_dir, adds, "unmatched")
           /\ logs' = Append(logs, LogRow(vs, ms, pdfs[pdf].name, i))
    /\ done' = done + 1
    /\ i' = i + 1
    /\ UNCHANGED <<Uploads, pc, backend_name, Index, pdf, reader, vendor_dir,
                   summary_csv, zip_entries, st_errors, normVars>>

\* the page loop of one pdf ends
NextPdf ==
    /\ pc = "pages" /\ ~HasNextPage(i, Len(reader))
    /\ pdf' = pdf + 1
    /\ pc' = "open"
    /\ UNCHANGED <<Uploads, backend_name, Index, i, reader, matches, vendors, done,
                   Outputs, st_errors, normVars>>

\* after the loop: the vendor PDFs, the CSV log and the zip
Finish ==
    /\ pc = "open" /\ pdf > Len(pdfs)
    /\ vendor_dir' = WriteVendors(vendor_dir, vendor_writers)
    /\ summary_csv' = logs
    /\ zip_entries' = {<<"vendors", f>> : f \in DOMAIN vendor_dir'}
                      \cup {<<"errors/mixed", f>> : f \in DOMAIN mixed_dir}
                      \cup {<<"errors/unmatched", f>> : f \in DOMAIN unmatched_dir}
                      \cup {<<"logs", <<"s", "u", "m", "m", "a", "r", "y", ".", "c", "s", "v">> >>}
    /\ pc' = "done"
    /\ UNCHANGED <<Uploads, backend_name, Index, Loop, vendor_writers, logs, mixed_dir,
                   unmatched_dir, added, st_errors, normVars>>

Next ==
    \/ ToggleCheckbox
    \/ UploadPdf
    \/ UploadXls
    \/ ClickRun
    \/ ImportPandas
    \/ GetPdfBackend
    \/ CheckUploads
    \/ ReadExcel
    \/ VendorColumn
    \/ KeyColumns
    \/ BuildIndex
    \/ OpenPdf
    \/ ProcessPage
    \/ NextPdf
    \/ Finish

Spec == Init /\ [][Next]_vars

\* ------------------------------------------------------------- normalize_key alone
NormAlphabet == {"0", "7", "a", "A", " ", "\t", "-", "_", "/"}
NormInputs == UNION {[1..n -> NormAlphabet] : n \in 0..MaxLen}

NormInit ==
    /\ ZERO_SIGNIFICANT = CHECKBOX_DEFAULT
    /\ pdfs = <<>> /\ xls = NoXls
    /\ pc = "idle" /\ backend_name = ""
    /\ df = NoXls /\ vendor_col = 0 /\ key_cols = <<>> /\ mapping = <<>>
    /\ total_pages = 0 /\ done = 0
    /\ vendor_writers = <<>> /\ logs = <<>>
    /\ pdf = 0 /\ i = 0 /\ reader = <<>> /\ matches = <<>> /\ vendors = {}
    /\ mixed_dir = <<>> /\ unmatched_dir = <<>> /\ vendor_dir = <<>>
    /\ summary_csv = <<>> /\ zip_entries = {}
    /\ added = <<>> /\ st_errors = {}
    /\ raw \in NormInputs /\ key = <<>> /\ rekey = <<>> /\ npc = "input"

NormalizeOnce ==
    /\ npc = "input"
    /\ key' = normalize_key(raw)
    /\ npc' = "once"
    /\ UNCHANGED <<ZERO_SIGNIFICANT, runVars, raw, rekey>>

NormalizeAgain ==
    /\ npc = "once"
    /\ rekey' = normalize_key(key)
    /\ npc' = "twice"
    /\ UNCHANGED <<ZERO_SIGNIFICANT, runVars, raw, key>>

NormNext ==
    \/ ToggleCheckbox
    \/ NormalizeOnce
    \/ NormalizeAgain

SpecNorm == NormInit /\ [][NormNext]_vars

\* ------------------------------------------------------------- properties
\* the pages the page loop has been through
ProcessedPages ==
    {pg \in UNION {{[pdf |-> p, page |-> q] : q \in 0..(Len(pdfs[p].pages) - 1)} :
                       p \in DOMAIN pdfs} :
        /\ ~pdfs[pg.pdf].corrupt
        /\ \/ pg.pdf < pdf
           \/ pg.pdf = pdf /\ pc = "pages" /\ pg.page < i}

\* the text extract_text gives for a page, "" when it raises
PageText(pg) ==
    IF pdfs[pg.pdf].pages[pg.page + 1].fails THEN <<>>
    ELSE pdfs[pg.pdf].pages[pg.page + 1].text

\* the positions in a page's text of the tokens whose key is in the index
MatchedAt(pg) ==
    {k \in DOMAIN PageText(pg) : normalize_key(PageText(pg)[k].token) \in DOMAIN mapping}
MatchVendors(pg) ==
    {mapping[normalize_key(PageText(pg)[k].token)] : k \in MatchedAt(pg)}

\* the log records of a page
RowsOf(pg) ==
    {k \in DOMAIN logs : /\ logs[k].source_pdf = pdfs[pg.pdf].name
                         /\ logs[k].page_index = IntStr(pg.page)}

\* how often a page stands in the vendor writers, and how often it was
\* added to a single-page writer for errors/mixed or errors/unmatched
VendorOcc(pg) ==
    Cardinality({wk \in UNION {{<<w, k>> : k \in DOMAIN vendor_writers[w].pages} :
                                  w \in DOMAIN vendor_writers} :
                    vendor_writers[wk[1]].pages[wk[2]] = pg})
SingleOcc(pg, dest) ==
    Cardinality({k \in DOMAIN added : added[k].page = pg /\ added[k].dest = dest})

\* C1: every processed page has been added to exactly one destination: one
\* vendor writer, or one mixed artifact, or one unmatched artifact
C1_ExactlyOneDestination ==
    \A pg \in ProcessedPages :
        /\ VendorOcc(pg) + SingleOcc(pg, "mixed") + SingleOcc(pg, "unmatched") = 1
        /\ Cardinality({k \in DOMAIN added : added[k].page = pg}) = 1

C1_Witness ==
    /\ pc = "done"
    /\ \E a, b, c \in ProcessedPages :
          VendorOcc(a) = 1 /\ SingleOcc(b, "mixed") = 1 /\ SingleOcc(c, "unmatched") = 1

\* the pages of all the uploaded files, and of those PdfReader opens
AllPages ==
    UNION {{<<p, q>> : q \in 1..Len(pdfs[p].pages)} : p \in DOMAIN pdfs}
OpenablePages == {pq \in AllPages : ~pdfs[pq[1]].corrupt}

\* C2 as claimed: after a run there are as many log records as pages in all
\* the input documents, whether or not a document could be opened
C2_LogCountAllDocuments ==
    pc = "done" => Len(logs) = Cardinality(AllPages)

\* C2 as amended: after a run every page of every document that could be
\* opened has exactly one log record, whether or not its text could be
\* extracted, and there are no other records; a document that cannot be
\* opened has none
C2_LogCountOpenedDocuments ==
    pc = "done" =>
        /\ Len(logs) = Cardinality(OpenablePages)
        /\ \A pq \in OpenablePages :
              Cardinality(RowsOf([pdf |-> pq[1], page |-> pq[2] - 1])) = 1
        /\ \A p \in DOMAIN pdfs :
              pdfs[p].corrupt => \A k \in DOMAIN logs : logs[k].source_pdf # pdfs[p].name

C2_Witness ==
    /\ pc = "done"
    /\ \E p \in DOMAIN pdfs : pdfs[p].corrupt /\ pdfs[p].pages # <<>>
    /\ \E pg \in ProcessedPages : pdfs[pg.pdf].pages[pg.page + 1].fails

\* C3: the decision of every page follows the number of distinct vendors of
\* its matches: none is UNMATCHED, one is that vendor, two or more is MIXED,
\* and a mixed page is in no vendor's writer
C3_DecisionByVendorCount ==
    \A pg \in ProcessedPages : \A k \in RowsOf(pg) :
        /\ Cardinality(MatchVendors(pg)) = 0 =>
              /\ logs[k].vendor = UNMATCHED
              /\ SingleOcc(pg, "unmatched") = 1 /\ VendorOcc(pg) = 0
        /\ Cardinality(MatchVendors(pg)) = 1 =>
              /\ logs[k].vendor \in MatchVendors(pg)
              /\ \E w \in DOMAIN vendor_writers :
                    /\ vendor_writers[w].vendor = logs[k].vendor
                    /\ pg \in Range(vendor_writers[w].pages)
        /\ Cardinality(MatchVendors(pg)) >= 2 =>
              /\ logs[k].vendor = MIXED
              /\ SingleOcc(pg, "mixed") = 1 /\ VendorOcc(pg) = 0

C3_Witness ==
    /\ pc = "done"
    /\ \E a, b, c \in ProcessedPages :
          /\ Cardinality(MatchVendors(a)) = 0 /\ PageText(a) # <<>>
          /\ Cardinality(MatchVendors(b)) = 1 /\ Cardinality(MatchedAt(b)) >= 2
          /\ Cardinality(MatchVendors(c)) >= 2 /\ VendorOcc(c) = 0

\* the place of a label in the anchor-priority order, from 0
PriorityIndex(label) == IndexIn(ANCHOR_PATTERNS, label) - 1
\* 1.0 - 0.1 * PriorityIndex(label) to two decimals
Confidence(label) ==
    CASE label = "Model" -> <<"1", ".", "0", "0">>
      [] label = "Item" -> <<"0", ".", "9", "0">>
      [] label = "Internet" -> <<"0", ".", "8", "0">>
      [] label = "SKU" -> <<"0", ".", "7", "0">>

\* the matched token of a page that is first by priority, then by place in the text
IsBestAt(pg, k) ==
    /\ k \in MatchedAt(pg)
    /\ \A j \in MatchedAt(pg) \ {k} :
          \/ PriorityIndex(PageText(pg)[k].label) < PriorityIndex(PageText(pg)[j].label)
          \/ /\ PriorityIndex(PageText(pg)[k].label) = PriorityIndex(PageText(pg)[j].label)
             /\ k < j

\* C4: the match logged for a page routed to one vendor is the match of the
\* highest confidence 1.0 - 0.1 * priorityIndex, and among equals the first in
\* anchor-priority order, then the first in the text
C4_BestMatchLogged ==
    \A pg \in ProcessedPages : \A k \in RowsOf(pg) :
        Cardinality(MatchVendors(pg)) = 1 =>
            \E b \in MatchedAt(pg) :
                /\ IsBestAt(pg, b)
                /\ logs[k].raw_token = PageText(pg)[b].token
                /\ logs[k].normalized = normalize_key(PageText(pg)[b].token)
                /\ logs[k].anchor = PageText(pg)[b].label
                /\ logs[k].confidence = Confidence(PageText(pg)[b].label)

C4_Witness ==
    \E pg \in ProcessedPages :
        /\ Cardinality(MatchVendors(pg)) = 1
        /\ \E a, b \in MatchedAt(pg) :
              /\ a < b
              /\ PageText(pg)[a].label # PageText(pg)[b].label
              /\ PriorityIndex(PageText(pg)[a].label) > PriorityIndex(PageText(pg)[b].label)
        /\ \E a, b \in MatchedAt(pg) :
              /\ a < b
              /\ PageText(pg)[a].label = PageText(pg)[b].label
              /\ PageText(pg)[a].token # PageText(pg)[b].token
              /\ IsBestAt(pg, a)

\* the page the loop processed last: matches and vendors are its locals
LastPage == added[Len(added)].page
\* the stripped key cells of the rows that have a vendor: what the index is built from
IndexedCells ==
    {c \in {Strip(PyStr(df.rows[r][key_cols[k]]), Whitespace) :
               r \in DOMAIN df.rows, k \in DOMAIN key_cols} :
        /\ c # <<>> /\ c \notin Placeholders
        /\ \E r \in DOMAIN df.rows :
              /\ Strip(PyStr(df.rows[r][vendor_col]), Whitespace) \notin {<<>>} \cup Placeholders
              /\ \E k \in DOMAIN key_cols :
                    Strip(PyStr(df.rows[r][key_cols[k]]), Whitespace) = c}
\* long is short with one or more "0" put in front
ZeroPadded(long, short) ==
    /\ Len(long) > Len(short)
    /\ SubSeq(long, Len(long) - Len(short) + 1, Len(long)) = short
    /\ \A k \in 1..(Len(long) - Len(short)) : long[k] = "0"
OnlyLeadingZerosApart(a, b) == ZeroPadded(a, b) \/ ZeroPadded(b, a)
\* the key the claim expects by default: leading zeros kept
KeepZerosKey(s) ==
    Remove(Remove(Remove(Remove(Upper(Strip(s, Whitespace)), " "), "-"), "_"), "/")

\* C6 as claimed: with the checkbox at its default leading zeros are kept, so
\* a page token matches only through an index cell that agrees with it zeros
\* and all: "007" and "7" are different keys
C6_DefaultKeepsLeadingZeros ==
    (ZERO_SIGNIFICANT = CHECKBOX_DEFAULT /\ added # <<>>) =>
        \A k \in DOMAIN matches :
            /\ matches[k].nz = KeepZerosKey(matches[k].raw)
            /\ \E c \in IndexedCells : KeepZerosKey(c) = KeepZerosKey(matches[k].raw)

\* C6 as amended: with the checkbox at its default ZERO_SIGNIFICANT is false
\* and normalize_key drops leading zeros, when the index is built and when a
\* page token is looked up: a page token and an index cell that differ only
\* by leading zeros ("007" and "7") get the same key, so the token matches
C6_DefaultStripsLeadingZeros ==
    (ZERO_SIGNIFICANT = CHECKBOX_DEFAULT /\ added # <<>>) =>
        \A k \in DOMAIN PageText(LastPage) : \A c \in IndexedCells :
            OnlyLeadingZerosApart(PageText(LastPage)[k].token, c) =>
                \E m \in DOMAIN matches :
                    /\ matches[m].raw = PageText(LastPage)[k].token
                    /\ matches[m].nz \in DOMAIN mapping

C6_Witness ==
    /\ ZERO_SIGNIFICANT = CHECKBOX_DEFAULT /\ added # <<>>
    /\ \E k \in DOMAIN matches : \E c \in IndexedCells :
          /\ ZeroPadded(matches[k].raw, c)
          /\ \A c2 \in IndexedCells : KeepZerosKey(c2) # KeepZerosKey(matches[k].raw)

\* C7 as claimed: a log record has empty match fields and confidence "0.00"
\* only when its page produced no match at all; a MIXED record carries a match
C7_EmptyOnlyWithoutMatch ==
    added # <<>> =>
        ((logs[Len(logs)].raw_token = <<>> /\ logs[Len(logs)].confidence = <<"0", ".", "0", "0">>)
            => matches = <<>>)

\* C7 as amended: the record of a page routed to one vendor carries the fields
\* of one of the page's matches, the confidence to two decimals; a record has
\* empty match fields and confidence "0.00" exactly when its page was not
\* routed to one vendor, that is UNMATCHED (no match) or MIXED (matches of two
\* or more vendors)
C7_EmptyUnlessRouted ==
    added # <<>> =>
        LET r == logs[Len(logs)]
        IN  /\ Cardinality(vendors) = 1 =>
                  \E m \in DOMAIN matches :
                      /\ r.raw_token = matches[m].raw
                      /\ r.normalized = matches[m].nz
                      /\ r.normalized = normalize_key(r.raw_token)
                      /\ r.anchor = matches[m].label
                      /\ r.method = matches[m].method
                      /\ r.confidence = Fmt2(matches[m].score)
                      /\ r.vendor = matches[m].vendor
            /\ Cardinality(vendors) # 1 =>
                  /\ r.raw_token = <<>> /\ r.normalized = <<>>
                  /\ r.anchor = "" /\ r.method = ""
                  /\ r.confidence = <<"0", ".", "0", "0">>
                  /\ r.vendor = IF matches = <<>> THEN UNMATCHED ELSE MIXED

C7_Witness ==
    /\ logs # <<>> /\ logs[Len(logs)].vendor = MIXED /\ matches # <<>>
    /\ \E k \in DOMAIN logs : logs[k].vendor = MIXED /\ logs[k].raw_token = <<>>
    /\ \E k \in DOMAIN logs : logs[k].raw_token # <<>>
                              /\ logs[k].raw_token # logs[k].normalized
    /\ added # <<>> /\ Cardinality(vendors) >= 2

\* the prerequisites of a run, read off the uploads and the backend
HasHeader(words) ==
    \E k \in DOMAIN xls.columns : \E w \in words : Contains(Lower(xls.columns[k]), w)
PrerequisiteMissing ==
    \/ backend_name = "none"
    \/ pdfs = <<>>
    \/ xls.kind = "none"
    \/ xls.kind = "xlsx" /\ xls.readable /\ ~HasHeader({<<"v", "e", "n", "d", "o", "r">>})
    \/ xls.kind = "xlsx" /\ xls.readable /\ ~HasHeader(KeyWords)

\* C8: with a prerequisite missing the run stops before the page loop: no page
\* is added to a writer, no artifact is written, no log record is appended
C8_StopsBeforeAnyPage ==
    (pc # "idle" /\ PrerequisiteMissing) =>
        /\ pc \notin {"build", "open", "pages", "done"}
        /\ logs = <<>> /\ added = <<>> /\ vendor_writers = <<>>
        /\ mixed_dir = <<>> /\ unmatched_dir = <<>> /\ vendor_dir = <<>>
        /\ summary_csv = <<>> /\ zip_entries = {}

C8_Witness ==
    /\ pc = "returned" /\ "key_cols" \in st_errors
    /\ \E p \in DOMAIN pdfs : ~pdfs[p].corrupt /\ pdfs[p].pages # <<>>

\* C9: after a run errors/mixed holds as many files as pages were classified
\* MIXED and errors/unmatched as many as were classified UNMATCHED: no two
\* pages share an artifact name
C9_OneArtifactPerPage ==
    pc = "done" =>
        /\ Cardinality(DOMAIN mixed_dir)
              = Cardinality({k \in DOMAIN logs : logs[k].vendor = MIXED})
        /\ Cardinality(DOMAIN unmatched_dir)
              = Cardinality({k \in DOMAIN logs : logs[k].vendor = UNMATCHED})

\* C5: normalize_key is idempotent, for either setting of the checkbox
C5_Idempotent ==
    npc = "twice" => rekey = key

\* C10: the result of normalize_key has no whitespace, none of - _ / and no
\* lowercase letter
C10_NoSeparatorsNoLowercase ==
    npc # "input" =>
        \A k \in DOMAIN key :
            key[k] \notin Whitespace \cup {"-", "_", "/"} \cup Range(LowerCase)

====
